---- MODULE Spec2Model ----
(***************************************************************************)
(* Model of scripts/normalize_cloud_activity.py: the taxonomy indexes, the *)
(* column resolver, the object and action classifiers, the qualifier       *)
(* deriver, the label composer, normalize_file and main.                   *)
(*                                                                         *)
(* Python str values are TLA+ strings; a character is a string of length   *)
(* one, SubSeq(s, i, i).  A dict is the sequence of its <<key, value>>     *)
(* items in insertion order, a list is a sequence, a tuple is a tuple.     *)
(* A value that the code names and reads several times is passed on as an  *)
(* operator argument, so that it is computed once.                         *)
(***************************************************************************)
EXTENDS Integers, Sequences, FiniteSets, TLC

(***************************************************************************)
(* Characters and the str methods the program uses.                        *)
(***************************************************************************)
UpperChars == "ABCDEFGHIJKLMNOPQRSTUVWXYZ"
LowerChars == "abcdefghijklmnopqrstuvwxyz"
DigitChars == "0123456789"

\* The whitespace str.strip() removes and the regex class \s matches.
WhitespaceChars == {" ", "\t", "\n", "\r"}

CharAt(s, i) == SubSeq(s, i, i)

CharsOf(s) == {CharAt(s, i) : i \in 1..Len(s)}

\* Upper-case letter -> lower-case letter, and back.
ToLower ==
    [c \in CharsOf(UpperChars) |->
        CharAt(LowerChars, CHOOSE i \in 1..Len(UpperChars) : CharAt(UpperChars, i) = c)]
ToUpper ==
    [c \in CharsOf(LowerChars) |->
        CharAt(UpperChars, CHOOSE i \in 1..Len(LowerChars) : CharAt(LowerChars, i) = c)]

LowerChar(c) == IF c \in DOMAIN ToLower THEN ToLower[c] ELSE c
UpperChar(c) == IF c \in DOMAIN ToUpper THEN ToUpper[c] ELSE c

\* The characters the class [A-Za-z0-9 ] matches.
AlnumSpaceChars == CharsOf(UpperChars) \cup CharsOf(LowerChars) \cup CharsOf(DigitChars) \cup {" "}

RECURSIVE Lower(_)
\* str.lower()
Lower(s) == IF s = "" THEN "" ELSE LowerChar(CharAt(s, 1)) \o Lower(Tail(s))

RECURSIVE Upper(_)
\* str.upper()
Upper(s) == IF s = "" THEN "" ELSE UpperChar(CharAt(s, 1)) \o Upper(Tail(s))

\* str.capitalize(): first character upper-cased, the rest lower-cased.
Capitalize(s) == IF s = "" THEN "" ELSE UpperChar(CharAt(s, 1)) \o Lower(Tail(s))

RECURSIVE LStrip(_)
LStrip(s) ==
    IF s # "" /\ CharAt(s, 1) \in WhitespaceChars THEN LStrip(Tail(s)) ELSE s

RECURSIVE RStrip(_)
RStrip(s) ==
    IF s # "" /\ CharAt(s, Len(s)) \in WhitespaceChars
    THEN RStrip(SubSeq(s, 1, Len(s) - 1))
    ELSE s

\* str.strip()
Strip(s) == RStrip(LStrip(s))

\* sub in s
Contains(sub, s) ==
    \E i \in 0..(Len(s) - Len(sub)) : SubSeq(s, i + 1, i + Len(sub)) = sub

\* s.startswith(p)
StartsWith(s, p) == Len(p) <= Len(s) /\ SubSeq(s, 1, Len(p)) = p

\* s.endswith(p)
EndsWith(s, p) == Len(p) <= Len(s) /\ SubSeq(s, Len(s) - Len(p) + 1, Len(s)) = p

RECURSIVE Replace(_, _, _)
\* s.replace(old, new) for a non-empty old: leftmost non-overlapping occurrences.
Replace(s, old, new) ==
    IF Len(s) < Len(old) THEN s
    ELSE IF SubSeq(s, 1, Len(old)) = old
         THEN new \o Replace(SubSeq(s, Len(old) + 1, Len(s)), old, new)
         ELSE CharAt(s, 1) \o Replace(Tail(s), old, new)

RECURSIVE SubWhitespaceRuns(_)
\* re.sub(r"\s+", " ", s): every maximal run of whitespace becomes one space.
SubWhitespaceRuns(s) ==
    IF s = "" THEN ""
    ELSE IF CharAt(s, 1) \in WhitespaceChars
         THEN " " \o SubWhitespaceRuns(LStrip(s))
         ELSE CharAt(s, 1) \o SubWhitespaceRuns(Tail(s))

\* s.split(" ")[0]: the text before the first space (all of s if it has none).
SplitFirst(s) ==
    IF Contains(" ", s)
    THEN SubSeq(s, 1, (CHOOSE i \in 1..Len(s) :
                          /\ CharAt(s, i) = " "
                          /\ \A j \in 1..(i - 1) : CharAt(s, j) # " ") - 1)
    ELSE s

RECURSIVE JoinWith(_, _)
\* sep.join(list)
JoinWith(sep, list) ==
    IF list = <<>> THEN ""
    ELSE IF Len(list) = 1 THEN list[1]
    ELSE list[1] \o sep \o JoinWith(sep, Tail(list))

Max(a, b) == IF a > b THEN a ELSE b

(***************************************************************************)
(* The module constants of the program.                                    *)
(***************************************************************************)
QUAL_DATA == "Data"
QUAL_ADMIN == "Admin"
QUAL_ALL_DISKS == "All Disks"
QUAL_BILLING_FREED == "Billing Freed"
QUAL_BILLING_CONTINUES == "Billing Continues"

STOP_FREED_SUBSTRINGS == {"deallocate", "stop instance", "stop instances", "stopped"}
STOP_CONTINUE_SUBSTRINGS == {"power off", "poweroff"}

\* COL_HINTS, a dict: its items in insertion order.
COL_HINTS ==
    << <<"operation", <<"operation name", "operation", "action performed", "event", "action">> >>,
       <<"resource_type", <<"resource type", "resource", "resource_name", "resource category">> >>,
       <<"service", <<"service", "provider", "namespace">> >>,
       <<"description", <<"description", "details", "detail">> >>,
       <<"is_data", <<"isdataaction", "is_data_action", "is_data", "data action", "data_action">> >>,
       <<"origin", <<"origin", "source">> >> >>

(***************************************************************************)
(* dict helpers.                                                           *)
(***************************************************************************)
DictHas(d, k) == \E i \in 1..Len(d) : d[i][1] = k

DictGet(d, k) == d[CHOOSE i \in 1..Len(d) : d[i][1] = k][2]

\* d[k] = v: an existing key keeps its position, a new key goes last.
DictSet(d, k, v) ==
    IF DictHas(d, k)
    THEN [i \in 1..Len(d) |-> IF d[i][1] = k THEN <<k, v>> ELSE d[i]]
    ELSE Append(d, <<k, v>>)

(***************************************************************************)
(* norm and the two index builders.                                        *)
(***************************************************************************)
\* norm without lower(): the letter case is kept.
norm_keeps_case(s) == SubWhitespaceRuns(Strip(s))

\* norm without strip(): the outer whitespace is kept (as one space).
norm_keeps_margin(s) == SubWhitespaceRuns(Lower(s))

norm(s) == SubWhitespaceRuns(Lower(Strip(s)))

RECURSIVE AddAliases(_, _, _)
\* for alias in aliases: lookup[norm(alias)] = label
AddAliases(lookup, aliases, label) ==
    IF aliases = <<>> THEN lookup
    ELSE AddAliases(DictSet(lookup, norm(aliases[1]), label), Tail(aliases), label)

RECURSIVE AddProviders(_, _, _)
\* for provider, aliases in data.get("provider_aliases", {}).items(): ...
AddProviders(lookup, provider_aliases, label) ==
    IF provider_aliases = <<>> THEN lookup
    ELSE AddProviders(AddAliases(lookup, provider_aliases[1][2], label),
                      Tail(provider_aliases), label)

RECURSIVE AddObjects(_, _)
\* for _, data in objects_yaml.items(): ...
AddObjects(lookup, objects_items) ==
    IF objects_items = <<>> THEN lookup
    ELSE AddObjects(AddProviders(lookup, objects_items[1][2].provider_aliases,
                                 objects_items[1][2].canonical_label),
                    Tail(objects_items))

build_object_lookup(objects_yaml) == AddObjects(<<>>, objects_yaml)

\* The tuples one taxonomy entry appends, in the order of its variants.
VariantsOf(key, data) ==
    [i \in 1..Len(data.provider_variants) |->
        <<norm(data.provider_variants[i]), key, data.label>>]

RECURSIVE CollectVariants(_)
\* for key, data in actions_yaml.items(): for variant in ...: variants.append(...)
CollectVariants(actions_items) ==
    IF actions_items = <<>> THEN <<>>
    ELSE VariantsOf(actions_items[1][1], actions_items[1][2])
         \o CollectVariants(Tail(actions_items))

RECURSIVE MaxPhraseLen(_)
MaxPhraseLen(variants) ==
    IF variants = <<>> THEN 0
    ELSE Max(Len(variants[1][1]), MaxPhraseLen(Tail(variants)))

RECURSIVE TakeByLenDown(_, _)
\* The variants of length n, then those of length n-1, ..., each group in its
\* original order: a stable sort on descending length.
TakeByLenDown(variants, n) ==
    IF n < 0 THEN <<>>
    ELSE SelectSeq(variants, LAMBDA v : Len(v[1]) = n) \o TakeByLenDown(variants, n - 1)

RECURSIVE TakeByLenUp(_, _, _)
TakeByLenUp(variants, n, top) ==
    IF n > top THEN <<>>
    ELSE SelectSeq(variants, LAMBDA v : Len(v[1]) = n) \o TakeByLenUp(variants, n + 1, top)

\* The sort with reverse=True forgotten: shortest phrase first.
sort_shortest_first(variants) == TakeByLenUp(variants, 0, MaxPhraseLen(variants))

\* variants.sort(key=lambda x: len(x[0]), reverse=True)
sort_longest_first(variants) == TakeByLenDown(variants, MaxPhraseLen(variants))

build_action_variants(actions_yaml) == sort_longest_first(CollectVariants(actions_yaml))

(***************************************************************************)
(* DataFrame cells.  pandas gives a cell as text, as a bool (a column of   *)
(* TRUE/FALSE) or as NaN (an empty cell); str() renders it.                *)
(***************************************************************************)
StrCell(s) == [kind |-> "str", s |-> s]
BoolCell(b) == [kind |-> "bool", b |-> b]
NaNCell == [kind |-> "nan"]

\* str(value)
pyStr(v) ==
    CASE v.kind = "str" -> v.s
      [] v.kind = "bool" -> IF v.b THEN "True" ELSE "False"
      [] v.kind = "nan" -> "nan"

\* row.get(name, default) on a row, a function from column names to cells.
RowGet(row, name, default) == IF name \in DOMAIN row THEN row[name] ELSE default

(***************************************************************************)
(* classify_object                                                         *)
(***************************************************************************)
\* The guard len(rt) > 3 written as len(rt) >= 3.
singularize_short(rt) ==
    IF EndsWith(rt, "s") /\ Len(rt) >= 3 THEN SubSeq(rt, 1, Len(rt) - 1) ELSE rt

\* if rt.endswith("s") and len(rt) > 3: rt = rt[:-1]
singularize(rt) ==
    IF EndsWith(rt, "s") /\ Len(rt) > 3 THEN SubSeq(rt, 1, Len(rt) - 1) ELSE rt

\* The last line without its default: return rt.
or_nothing(rt) == rt

\* return rt or "Resource"
or_resource(rt) == IF rt = "" THEN "Resource" ELSE rt

\* The items of the lookup whose alias is in combo, in the dict's order.
MatchingAliases(combo, lookup) == SelectSeq(lookup, LAMBDA item : Contains(item[1], combo))

\* The loop returns the label of the first such item; lines 75-78 otherwise.
FirstAliasOrFallback(hits, resource_type) ==
    IF hits # <<>> THEN hits[1][2]
    ELSE or_resource(singularize(Strip(resource_type)))

classify_object(resource_type, op_name, lookup) ==
    FirstAliasOrFallback(MatchingAliases(Lower(resource_type \o " " \o op_name), lookup),
                         resource_type)

(***************************************************************************)
(* classify_action                                                         *)
(***************************************************************************)
\* The variants the loop of classify_action accepts, in the index's order.
MatchingVariants(low, action_variants) ==
    SelectSeq(action_variants, LAMBDA v : v[1] # "" /\ Contains(v[1], low))

\* The prefix heuristics and the final fallback, lines 85-93.
action_heuristics(low) ==
    IF \/ StartsWith(low, "get") \/ StartsWith(low, "read")
       \/ StartsWith(low, "list") \/ Contains(" list", low)
    THEN <<"retrieved", "Retrieved">>
    ELSE IF StartsWith(low, "create") THEN <<"created", "Created">>
    ELSE IF StartsWith(low, "update") THEN <<"updated", "Updated">>
    ELSE IF StartsWith(low, "delete") THEN <<"deleted", "Deleted">>
    ELSE <<"other", Capitalize(SplitFirst(low))>>

\* The loop returns on the first such variant; the heuristics otherwise.
FirstVariantOrHeuristics(hits, low) ==
    IF hits # <<>> THEN <<hits[1][2], hits[1][3]>>
    ELSE action_heuristics(low)

ClassifyLow(low, action_variants) ==
    FirstVariantOrHeuristics(MatchingVariants(low, action_variants), low)

classify_action(op_name, action_variants) == ClassifyLow(norm(op_name), action_variants)

(***************************************************************************)
(* derive_stop_qualifier, derive_qualifiers                                *)
(***************************************************************************)
StopQualifierContinuesFirst(low) ==
    IF \E s \in STOP_CONTINUE_SUBSTRINGS : Contains(s, low) THEN QUAL_BILLING_CONTINUES
    ELSE IF \E s \in STOP_FREED_SUBSTRINGS : Contains(s, low) THEN QUAL_BILLING_FREED
    ELSE ""

\* The two loops in the other order: the continues set checked first.
derive_stop_qualifier_continues_first(op_name) == StopQualifierContinuesFirst(norm(op_name))

StopQualifierOf(low) ==
    IF \E s \in STOP_FREED_SUBSTRINGS : Contains(s, low) THEN QUAL_BILLING_FREED
    ELSE IF \E s \in STOP_CONTINUE_SUBSTRINGS : Contains(s, low) THEN QUAL_BILLING_CONTINUES
    ELSE ""

derive_stop_qualifier(op_name) == StopQualifierOf(norm(op_name))

\* What each of the four if statements of lines 107-117 appends to q.
DataTag(row) ==
    IF Upper(pyStr(RowGet(row, "IsDataAction", RowGet(row, "is_data", StrCell(""))))) = "TRUE"
    THEN <<QUAL_DATA>> ELSE <<>>
AdminTag(low) ==
    IF Contains("admin", low) /\ Contains("login", low) THEN <<QUAL_ADMIN>> ELSE <<>>
AllDisksTag(low) == IF Contains("all disks", low) THEN <<QUAL_ALL_DISKS>> ELSE <<>>
NonEmpty(stop_q) == IF stop_q # "" THEN <<stop_q>> ELSE <<>>
StopTag(action_key, op_name) ==
    IF action_key = "stopped" THEN NonEmpty(derive_stop_qualifier(op_name)) ELSE <<>>

QualifierList(row, action_key, op_name, low) ==
    DataTag(row) \o AdminTag(low) \o AllDisksTag(low) \o StopTag(action_key, op_name)

\* return ";".join(q) if q else ""
JoinQualifiers(q) == IF q # <<>> THEN JoinWith(";", q) ELSE ""

derive_qualifiers(row, action_key, op_name) ==
    JoinQualifiers(QualifierList(row, action_key, op_name, norm(op_name)))

(***************************************************************************)
(* build_common_name, aggregation_key                                      *)
(***************************************************************************)
build_common_name(obj_label, action_label, qualifiers) ==
    obj_label \o " " \o action_label
    \o (IF qualifiers # "" THEN " (" \o qualifiers \o ")" ELSE "")

\* Where a match of \s+\(.*\)$ ends: at the end of the string, or before a
\* final newline; 0 when the string cannot end a match.
SuffixEnd(s) ==
    IF s # "" /\ CharAt(s, Len(s)) = ")" THEN Len(s)
    ELSE IF Len(s) >= 2 /\ CharAt(s, Len(s)) = "\n" /\ CharAt(s, Len(s) - 1) = ")"
         THEN Len(s) - 1
         ELSE 0

\* \s+\(.*\)$ matches s[i..e]: whitespace s[i..k], "(" at k+1, then any
\* characters but a newline, then the ")" at e.
SuffixMatchesAt(s, i, e) ==
    \E k \in i..(e - 2) :
        /\ \A j \in i..k : CharAt(s, j) \in WhitespaceChars
        /\ CharAt(s, k + 1) = "("
        /\ \A j \in (k + 2)..(e - 1) : CharAt(s, j) # "\n"

\* The string without s[i..e], for the least i of starts, if there is one.
CutLeftmost(s, starts, e) ==
    IF starts = {} THEN s
    ELSE SubSeq(s, 1, (CHOOSE m \in starts : \A n \in starts : m <= n) - 1)
         \o SubSeq(s, e + 1, Len(s))

CutSuffixEndingAt(s, e) ==
    CutLeftmost(s, {i \in 1..e : SuffixMatchesAt(s, i, e)}, e)

\* re.sub(r"\s+\(.*\)$", "", common_name): the leftmost match is removed.
strip_qualifier_suffix(common_name) == CutSuffixEndingAt(common_name, SuffixEnd(common_name))

RECURSIVE KeepAlnumSpace(_)
\* re.sub(r"[^A-Za-z0-9 ]", "", base)
KeepAlnumSpace(s) ==
    IF s = "" THEN ""
    ELSE (IF CharAt(s, 1) \in AlnumSpaceChars THEN CharAt(s, 1) ELSE "")
         \o KeepAlnumSpace(Tail(s))

aggregation_key(common_name) ==
    Replace(Upper(KeepAlnumSpace(Replace(strip_qualifier_suffix(common_name),
                                         " or ", " OR "))),
            " ", "_")

(***************************************************************************)
(* DataFrames: the column names in order, and the rows, each a function    *)
(* from the column names to cells.                                         *)
(***************************************************************************)
Range(seq) == {seq[i] : i \in 1..Len(seq)}

\* df[name] = values, a list with one value per row: an existing column is
\* overwritten in place, a new one is added after the others.
SetColumn(df, name, values) ==
    [columns |-> IF name \in Range(df.columns) THEN df.columns ELSE Append(df.columns, name),
     rows |-> [i \in 1..Len(df.rows) |->
                 [c \in (DOMAIN df.rows[i]) \cup {name} |->
                     IF c = name THEN values[i] ELSE df.rows[i][c]]]]

\* df[name] = value, a scalar: the same value in every row.
SetColumnScalar(df, name, value) ==
    [columns |-> IF name \in Range(df.columns) THEN df.columns ELSE Append(df.columns, name),
     rows |-> [i \in 1..Len(df.rows) |->
                 [c \in (DOMAIN df.rows[i]) \cup {name} |->
                     IF c = name THEN value ELSE df.rows[i][c]]]]

(***************************************************************************)
(* map_columns                                                             *)
(***************************************************************************)
RECURSIVE DictFromItems(_, _)
\* {k: v for ...}, built left to right.
DictFromItems(items, d) ==
    IF items = <<>> THEN d
    ELSE DictFromItems(Tail(items), DictSet(d, items[1][1], items[1][2]))

\* The comprehension without .lower(): the column names compared as written.
lower_map_as_written(columns) ==
    DictFromItems([i \in 1..Len(columns) |-> <<columns[i], columns[i]>>], <<>>)

\* lower_map = {c.lower(): c for c in df.columns}
lower_map_of(columns) ==
    DictFromItems([i \in 1..Len(columns) |-> <<Lower(columns[i]), columns[i]>>], <<>>)

\* The hints of one role that are keys of lower_map, in the order of the hints.
PresentHints(hints, lower_map) == SelectSeq(hints, LAMBDA h : DictHas(lower_map, h))

\* The inner loop of lines 60-63: the first present hint, if any, is mapped.
MapFirstHint(mapping, canonical, present, lower_map) ==
    IF present # <<>> THEN DictSet(mapping, canonical, DictGet(lower_map, present[1]))
    ELSE mapping

RECURSIVE MapHints(_, _, _)
\* The loop of lines 59-63 over the items of COL_HINTS.
MapHints(col_hints, lower_map, mapping) ==
    IF col_hints = <<>> THEN mapping
    ELSE MapHints(Tail(col_hints), lower_map,
                  MapFirstHint(mapping, col_hints[1][1],
                               PresentHints(col_hints[1][2], lower_map), lower_map))

\* The result of a call: what it returns, or the exception it raises.
Returned(value) == [raised |-> FALSE, value |-> value]
Raised(type, message) == [raised |-> TRUE, type |-> type, message |-> message]

\* Lines 64-68
CheckMapping(mapping) ==
    IF ~DictHas(mapping, "operation")
    THEN Raised("ValueError", "Could not identify operation column.")
    ELSE IF ~DictHas(mapping, "resource_type")
         THEN Returned(DictSet(mapping, "resource_type", DictGet(mapping, "operation")))
         ELSE Returned(mapping)

map_columns(df) == CheckMapping(MapHints(COL_HINTS, lower_map_of(df.columns), <<>>))

(***************************************************************************)
(* normalize_file                                                          *)
(***************************************************************************)
EmptyLists ==
    [common_names |-> <<>>, canon_actions |-> <<>>, object_types |-> <<>>,
     qualifiers |-> <<>>, agg_keys |-> <<>>]

\* Lines 149-154
AppendResults(lists, obj_label, action, qs, common) ==
    [common_names |-> Append(lists.common_names, StrCell(common)),
     canon_actions |-> Append(lists.canon_actions, StrCell(action[2])),
     object_types |-> Append(lists.object_types, StrCell(obj_label)),
     qualifiers |-> Append(lists.qualifiers, StrCell(qs)),
     agg_keys |-> Append(lists.agg_keys, StrCell(aggregation_key(common)))]

\* Line 148
ComposeAndAppend(lists, obj_label, action, qs) ==
    AppendResults(lists, obj_label, action, qs, build_common_name(obj_label, action[2], qs))

\* Line 147
QualifyAndAppend(lists, r, op_name, obj_label, action) ==
    ComposeAndAppend(lists, obj_label, action, derive_qualifiers(r, action[1], op_name))

\* Lines 145-146
ClassifyAndAppend(lists, r, op_name, resource_type, lookup, variants) ==
    QualifyAndAppend(lists, r, op_name, classify_object(resource_type, op_name, lookup),
                     classify_action(op_name, variants))

\* The body of the loop over df.iterrows(), lines 143-154.
LoopBody(lists, r, op_col, rt_col, lookup, variants) ==
    ClassifyAndAppend(lists, r, pyStr(r[op_col]), pyStr(r[rt_col]), lookup, variants)

RECURSIVE LoopRows(_, _, _, _, _, _)
LoopRows(lists, rows, op_col, rt_col, lookup, variants) ==
    IF rows = <<>> THEN lists
    ELSE LoopRows(LoopBody(lists, rows[1], op_col, rt_col, lookup, variants),
                  Tail(rows), op_col, rt_col, lookup, variants)

\* The provider written as given.
provider_tag_verbatim(provider) == provider

\* provider.capitalize(), line 161
provider_tag(provider) == Capitalize(provider)

\* Lines 156-161
AssignColumns(df, lists, provider) ==
    SetColumnScalar(
        SetColumn(
            SetColumn(
                SetColumn(
                    SetColumn(
                        SetColumn(df, "CommonActivityName", lists.common_names),
                        "CanonicalAction", lists.canon_actions),
                    "ObjectType", lists.object_types),
                "Qualifiers", lists.qualifiers),
            "AggregationKey", lists.agg_keys),
        "Provider", StrCell(provider_tag(provider)))

\* Path(name).stem of a name that ends in ".csv"
Stem(name) == SubSeq(name, 1, Len(name) - Len(".csv"))

\* out_path = OUTPUT_DIR / f"{path.stem}_canonical.csv", as a name in output/
OutName(name) == Stem(name) \o "_canonical.csv"

\* Lines 133-165, with the mapping map_columns returned.
NormalizeMapped(name, df, provider, lookup, variants, mapping) ==
    Returned([out_name |-> OutName(name),
              written |-> AssignColumns(df,
                              LoopRows(EmptyLists, df.rows, DictGet(mapping, "operation"),
                                       DictGet(mapping, "resource_type"), lookup, variants),
                              provider),
              count |-> Len(df.rows)])

\* An exception of map_columns leaves normalize_file at line 132.
NormalizeWith(name, df, provider, lookup, variants, m) ==
    IF m.raised THEN m
    ELSE NormalizeMapped(name, df, provider, lookup, variants, m.value)

\* normalize_file on the DataFrame read from the file called name: the
\* exception of map_columns, or the DataFrame written, its name and len(df).
normalize_file(name, df, provider, lookup, variants) ==
    NormalizeWith(name, df, provider, lookup, variants, map_columns(df))

(***************************************************************************)
(* discover_provider and the pieces of main                                *)
(***************************************************************************)
ProviderOfLower(f) ==
    IF StartsWith(f, "azure") THEN "azure"
    ELSE IF StartsWith(f, "aws") THEN "aws"
    ELSE IF StartsWith(f, "gcp") THEN "gcp"
    ELSE "generic"

discover_provider(file_name) == ProviderOfLower(Lower(file_name))

\* The characters of the file names, in code point order.
CodePointOrder == " ()-.0123456789ABCDEFGHIJKLMNOPQRSTUVWXYZ_abcdefghijklmnopqrstuvwxyz"
CodePointRank ==
    [c \in CharsOf(CodePointOrder) |->
        CHOOSE i \in 1..Len(CodePointOrder) : CharAt(CodePointOrder, i) = c]

RECURSIVE StrLess(_, _)
\* a < b on str
StrLess(a, b) ==
    IF b = "" THEN FALSE
    ELSE IF a = "" THEN TRUE
    ELSE IF CharAt(a, 1) = CharAt(b, 1) THEN StrLess(Tail(a), Tail(b))
    ELSE CodePointRank[CharAt(a, 1)] < CodePointRank[CharAt(b, 1)]

Least(names) == CHOOSE n \in names : \A m \in names \ {n} : StrLess(n, m)

RECURSIVE Sorted(_)
\* sorted(names) of a set of distinct names
Sorted(names) ==
    IF names = {} THEN <<>>
    ELSE <<Least(names)>> \o Sorted(names \ {Least(names)})

\* [p for p in Path('.').glob('*.csv') if not p.name.endswith('_canonical.csv')]
GlobCsv(dir) == {n \in DOMAIN dir : EndsWith(n, ".csv") /\ ~EndsWith(n, "_canonical.csv")}

\* DataFrame.to_csv followed by pd.read_csv: an empty text cell is read back
\* as NaN.  (Text that reads as a number or a boolean changes type as well;
\* nothing reads a cell after this point.)
ReadBackCell(v) == IF v.kind = "str" /\ v.s = "" THEN NaNCell ELSE v

ReadBack(df) ==
    [columns |-> df.columns,
     rows |-> [i \in 1..Len(df.rows) |->
                 [c \in DOMAIN df.rows[i] |-> ReadBackCell(df.rows[i][c])]]]

RECURSIVE UnionColumns(_, _)
UnionColumns(frames, columns) ==
    IF frames = <<>> THEN columns
    ELSE UnionColumns(Tail(frames),
                      columns \o SelectSeq(frames[1].columns, LAMBDA c : c \notin Range(columns)))

RECURSIVE AllRows(_)
AllRows(frames) == IF frames = <<>> THEN <<>> ELSE frames[1].rows \o AllRows(Tail(frames))

ConcatOf(columns, rows) ==
    [columns |-> columns,
     rows |-> [i \in 1..Len(rows) |->
                 [c \in Range(columns) |->
                     IF c \in DOMAIN rows[i] THEN rows[i][c] ELSE NaNCell]]]

\* pd.concat(frames, ignore_index=True): the union of the columns, the rows
\* one frame after the other, NaN where a frame lacks a column.
Concat(frames) == ConcatOf(UnionColumns(frames, <<>>), AllRows(frames))

CombinedName == "all_providers_canonical.csv"

\* file[name] = df in a directory, a function from file names to DataFrames.
WriteFile(dir, name, df) ==
    [n \in (DOMAIN dir) \cup {name} |-> IF n = name THEN df ELSE dir[n]]

(***************************************************************************)
(* Bounds, and the inputs drawn within them.                               *)
(***************************************************************************)
\* Words in an operation name.
MaxWords == 2
\* Rows in an input table.
MaxRows == 2
\* Input files other than the left-over *_canonical.csv.
MaxFiles == 2

\* taxonomy/common_objects.yaml as load_yaml gives it: the items of the dict.
ObjectsVm ==
    << <<"virtual_machine",
         [canonical_label |-> "Virtual Machine",
          provider_aliases |-> << <<"azure", <<"Virtual  Machines", "virtualMachines">> >>,
                                  <<"aws", <<"Instance">> >> >>] >>,
       <<"disk",
         [canonical_label |-> "Disk",
          provider_aliases |-> << <<"azure", <<"managed disks">> >> >>] >>,
       <<"vmss",
         [canonical_label |-> "Scale Set",
          provider_aliases |-> << <<"azure", <<"virtualmachines">> >> >>] >> >>

ObjectsNone == <<>>

\* taxonomy/common_actions.yaml as load_yaml gives it: the items of the dict.
ActionsStopFirst ==
    << <<"stop", [label |-> "Stop", provider_variants |-> <<"stop">>]>>,
       <<"stopped", [label |-> "Stopped", provider_variants |-> <<"stop instance">>]>> >>

ActionsStoppedFirst ==
    << <<"stopped", [label |-> "Stopped", provider_variants |-> <<"stop instance">>]>>,
       <<"stop", [label |-> "Stop", provider_variants |-> <<"stop">>]>> >>

ActionsCloud ==
    << <<"operated", [label |-> "Operated", provider_variants |-> <<"instance", "">>]>>,
       <<"stopped", [label |-> "Stopped",
                     provider_variants |-> <<"Deallocate", "poweroff", "Power  Off",
                                             "StopInstances">>]>>,
       <<"administered", [label |-> "Administered", provider_variants |-> <<"admin">>]>>,
       <<"signed_in", [label |-> "Signed In", provider_variants |-> <<"login">>]>> >>

ActionsNone == <<>>

\* The pairs of taxonomy files a run is started with.
Taxonomies ==
    {<<ObjectsVm, ActionsStopFirst>>, <<ObjectsVm, ActionsStoppedFirst>>,
     <<ObjectsVm, ActionsCloud>>, <<ObjectsNone, ActionsCloud>>,
     <<ObjectsNone, ActionsStopFirst>>, <<ObjectsNone, ActionsNone>>}

OpWords == {"Stop", "Instance", "deallocate", "PowerOff", "Admin Login", "All Disks", "list"}
WordSeparators == {"", " ", " \t"}

RECURSIVE OpsOfWords(_)
\* The operation names of exactly n words.
OpsOfWords(n) ==
    IF n = 0 THEN {""}
    ELSE IF n = 1 THEN OpWords
    ELSE {a \o sep \o w : a \in OpsOfWords(n - 1), sep \in WordSeparators, w \in OpWords}

OtherOps ==
    {" ", " \t ", "GetDisk", "ReadBlob", "CreateVm", "UpdateVm", "DeleteVm", "Restart VM", " Restart",
     "(x) y", "Power Off", "Admin Login All Disks",
     "Microsoft.Compute/virtualMachines/deallocate/action"}

OpNames == UNION {OpsOfWords(n) : n \in 0..MaxWords} \cup OtherOps
ShortOps == OpsOfWords(0) \cup OpsOfWords(1) \cup OtherOps

ResourceTypes ==
    {"", "  ", "Disks", " Disks ", "DISKS", "Bus", "Rows", "Virtual Machines", "Disk (x)"}

\* A row's fields other than the operation and the resource type.
FlagRows ==
    {<<>>,
     [c \in {"IsDataAction"} |-> BoolCell(TRUE)],
     [c \in {"IsDataAction"} |-> StrCell("true")],
     [c \in {"IsDataAction"} |-> StrCell("FALSE")],
     [c \in {"is_data"} |-> StrCell("True")],
     [c \in {"IsDataAction", "is_data"} |->
         IF c = "is_data" THEN StrCell("TRUE") ELSE NaNCell]}

\* The calls of the loop body that are tried: every operation name on one
\* resource type, and the short ones on every resource type and flag.
RowInputs ==
    (OpNames \X {"Virtual Machines"} \X {<<>>}) \cup (ShortOps \X ResourceTypes \X FlagRows)

\* Input tables as pd.read_csv gives them, by schema.
Cols(names, cells) == [c \in Range(names) |-> cells[CHOOSE i \in 1..Len(names) : names[i] = c]]

ActivityColumns == <<"Operation Name", "Resource Type", "IsDataAction">>
ActivityRows ==
    {Cols(ActivityColumns, <<StrCell("virtualMachines/deallocate/action"),
                             StrCell("Virtual Machines"), BoolCell(FALSE)>>),
     Cols(ActivityColumns, <<StrCell("Admin Login All Disks"), StrCell("Disks"),
                             BoolCell(TRUE)>>)}

NoOperationColumns == <<"id", "timestamp">>
NoOperationRows == {Cols(NoOperationColumns, <<StrCell("1"), StrCell("2026-01-01")>>)}

EventColumns == <<"EVENT", "Provider">>
EventRows == {Cols(EventColumns, <<StrCell("StopInstances"), StrCell("ec2.amazonaws.com")>>)}

OneLonger(shorter, pool) == shorter \cup {Append(q, x) : q \in shorter, x \in pool}

RECURSIVE SeqsUpTo(_, _)
\* The sequences of at most n elements of pool.
SeqsUpTo(pool, n) ==
    IF n = 0 THEN {<<>>}
    ELSE OneLonger(SeqsUpTo(pool, n - 1), pool)

TablesOf(columns, pool, n) == {[columns |-> columns, rows |-> r] : r \in SeqsUpTo(pool, n)}

\* Up to MaxRows rows in the schema whose rows differ; none or one row in
\* the schemas with a single row to draw.
Tables ==
    TablesOf(ActivityColumns, ActivityRows, MaxRows)
    \cup TablesOf(NoOperationColumns, NoOperationRows, 1)
    \cup TablesOf(EventColumns, EventRows, 1)

FileNames == {"AWS_a.csv", "all_providers.csv", "azure_b.csv"}

\* A file an earlier run left behind, which the glob filter must skip.
LeftOverName == "old_canonical.csv"
LeftOver == [columns |-> <<"Operation">>, rows |-> <<>>]

\* The contents '.' can have: at most MaxFiles input files, and the left-over.
Directories ==
    UNION {{[n \in names \cup {LeftOverName} |->
                IF n = LeftOverName THEN LeftOver ELSE t[n]] : t \in [names -> Tables]} :
           names \in {ns \in SUBSET FileNames : Cardinality(ns) <= MaxFiles}}

(***************************************************************************)
(* State.                                                                  *)
(***************************************************************************)
VARIABLES
    objects_yaml,    \* main: the parsed object taxonomy
    actions_yaml,    \* main: the parsed action taxonomy
    object_lookup,   \* main: build_object_lookup(objects_yaml)
    action_variants, \* main: build_action_variants(actions_yaml)
    cwd,             \* the files of '.', file name -> DataFrame read from it
    out_dir,         \* the files of output/, file name -> DataFrame written
    pc,              \* main: where it stands
    csv_files,       \* main: the sorted names of the input files
    idx,             \* main: the position of the loop of line 189 in csv_files
    provider,        \* main: the provider of the file of the last iteration
    e,               \* main: the exception the last iteration caught, if any
    summary,         \* main: (file name, output name, row count) of each success
    stdout,          \* what main has printed
    rpc,             \* loop body of normalize_file: where it stands
    op_name, resource_type, row,
    obj_label, action_key, action_label, qs, common, agg

mainVars == <<cwd, out_dir, pc, csv_files, idx, provider, e, summary, stdout>>
rowVars == <<rpc, op_name, resource_type, row, obj_label, action_key, action_label,
             qs, common, agg>>
indexVars == <<objects_yaml, actions_yaml, object_lookup, action_variants>>
vars == <<indexVars, mainVars, rowVars>>

NoException == [raised |-> FALSE]

\* The loop-body variables before a row is taken.
RowIdle(at) ==
    /\ rpc = at
    /\ op_name = "" /\ resource_type = "" /\ row = <<>>
    /\ obj_label = "" /\ action_key = "" /\ action_label = ""
    /\ qs = "" /\ common = "" /\ agg = ""

\* main before its first statement.
MainIdle(at) ==
    /\ pc = at
    /\ out_dir = <<>>
    /\ csv_files = <<>> /\ idx = 0 /\ provider = "" /\ e = NoException
    /\ summary = <<>> /\ stdout = <<>>

(***************************************************************************)
(* main                                                                    *)
(***************************************************************************)
Init ==
    /\ \E t \in {<<ObjectsVm, ActionsCloud>>} : objects_yaml = t[1] /\ actions_yaml = t[2]
    /\ object_lookup = <<>> /\ action_variants = <<>>
    /\ cwd \in Directories
    /\ MainIdle("start")
    /\ RowIdle("off")

\* Lines 178-186 when the glob finds nothing: print and return.
MainNoFiles ==
    /\ pc = "start"
    /\ GlobCsv(cwd) = {}
    /\ object_lookup' = build_object_lookup(objects_yaml)
    /\ action_variants' = build_action_variants(actions_yaml)
    /\ stdout' = Append(stdout, <<"No CSV files found.">>)
    /\ pc' = "done"
    /\ UNCHANGED <<objects_yaml, actions_yaml, cwd, out_dir, csv_files, idx, provider, e,
                   summary, rowVars>>

\* Lines 178-188 otherwise: the indexes, the file list, the empty summary.
MainStart ==
    /\ pc = "start"
    /\ GlobCsv(cwd) # {}
    /\ object_lookup' = build_object_lookup(objects_yaml)
    /\ action_variants' = build_action_variants(actions_yaml)
    /\ csv_files' = Sorted(GlobCsv(cwd))
    /\ idx' = 1
    /\ summary' = <<>>
    /\ pc' = "loop"
    /\ UNCHANGED <<objects_yaml, actions_yaml, cwd, out_dir, provider, e, stdout, rowVars>>

FileOk(name, p, r) ==
    /\ ~r.raised
    /\ provider' = p
    /\ out_dir' = WriteFile(out_dir, r.value.out_name, r.value.written)
    /\ summary' = Append(summary, <<name, r.value.out_name, r.value.count>>)
    /\ stdout' = Append(stdout, <<"[OK]", name, r.value.out_name, r.value.count>>)
    /\ e' = NoException

\* One iteration of the loop of lines 189-196 in which normalize_file returns.
MainFileOk ==
    /\ pc = "loop" /\ idx <= Len(csv_files)
    /\ FileOk(csv_files[idx], discover_provider(csv_files[idx]),
              normalize_file(csv_files[idx], cwd[csv_files[idx]],
                             discover_provider(csv_files[idx]), object_lookup,
                             action_variants))
    /\ idx' = idx + 1
    /\ UNCHANGED <<indexVars, cwd, pc, csv_files, rowVars>>

FileFail(name, p, r) ==
    /\ r.raised
    /\ provider' = p
    /\ e' = r
    /\ stdout' = Append(stdout, <<"[FAIL]", name, r.message>>)

\* One iteration in which normalize_file raises: the except clause prints.
MainFileFail ==
    /\ pc = "loop" /\ idx <= Len(csv_files)
    /\ map_columns(cwd[csv_files[idx]]).raised    \* line 132, the statement that raises
    /\ FileFail(csv_files[idx], discover_provider(csv_files[idx]),
                normalize_file(csv_files[idx], cwd[csv_files[idx]],
                               discover_provider(csv_files[idx]), object_lookup,
                               action_variants))
    /\ idx' = idx + 1
    /\ UNCHANGED <<indexVars, cwd, out_dir, pc, csv_files, summary, rowVars>>

\* Lines 198-205 with at least one success: the combined file is written.
MainCombine ==
    /\ pc = "loop" /\ idx > Len(csv_files)
    /\ summary # <<>>
    /\ out_dir' = WriteFile(out_dir, CombinedName,
                            Concat([i \in 1..Len(summary) |->
                                       ReadBack(out_dir[summary[i][2]])]))
    /\ stdout' = Append(stdout, <<"Wrote output/all_providers_canonical.csv">>)
    /\ pc' = "done"
    /\ UNCHANGED <<indexVars, cwd, csv_files, idx, provider, e, summary, rowVars>>

\* Lines 198-205 with no success: nothing to combine.
MainNothingToCombine ==
    /\ pc = "loop" /\ idx > Len(csv_files)
    /\ summary = <<>>
    /\ pc' = "done"
    /\ UNCHANGED <<indexVars, cwd, out_dir, csv_files, idx, provider, e, summary, stdout,
                   rowVars>>

Next ==
    \/ MainNoFiles
    \/ MainStart
    \/ MainFileOk
    \/ MainFileFail
    \/ MainCombine
    \/ MainNothingToCombine

Spec == Init /\ [][Next]_vars

(***************************************************************************)
(* The loop body of normalize_file on one row, statement by statement,     *)
(* with the indexes main built.                                            *)
(***************************************************************************)
InitRow ==
    /\ \E t \in Taxonomies : objects_yaml = t[1] /\ actions_yaml = t[2]
    /\ object_lookup = build_object_lookup(objects_yaml)
    /\ action_variants = build_action_variants(actions_yaml)
    /\ cwd = <<>>
    /\ MainIdle("off")
    /\ RowIdle("next")

\* Lines 143-146: the two texts of the row, then the two classifiers.
ClassifyRow ==
    /\ rpc = "next"
    /\ \E in \in RowInputs :
        /\ op_name' = in[1]
        /\ resource_type' = in[2]
        /\ row' = in[3]
        /\ obj_label' = classify_object(in[2], in[1], object_lookup)
        /\ action_key' = classify_action(in[1], action_variants)[1]
        /\ action_label' = classify_action(in[1], action_variants)[2]
    /\ rpc' = "classified"
    /\ UNCHANGED <<indexVars, mainVars, qs, common, agg>>

\* Line 147
QualifyRow ==
    /\ rpc = "classified"
    /\ qs' = derive_qualifiers(row, action_key, op_name)
    /\ rpc' = "qualified"
    /\ UNCHANGED <<indexVars, mainVars, op_name, resource_type, row, obj_label, action_key,
                   action_label, common, agg>>

\* Lines 148-149
ComposeRow ==
    /\ rpc = "qualified"
    /\ common' = build_common_name(obj_label, action_label, qs)
    /\ agg' = aggregation_key(build_common_name(obj_label, action_label, qs))
    /\ rpc' = "composed"
    /\ UNCHANGED <<indexVars, mainVars, op_name, resource_type, row, obj_label, action_key,
                   action_label, qs>>

\* Lines 150-154 and back to line 142: the values go to the lists and the
\* loop variables are assigned anew before they are read again.
NextRow ==
    /\ rpc = "composed"
    /\ rpc' = "next"
    /\ op_name' = "" /\ resource_type' = "" /\ row' = <<>>
    /\ obj_label' = "" /\ action_key' = "" /\ action_label' = ""
    /\ qs' = "" /\ common' = "" /\ agg' = ""
    /\ UNCHANGED <<indexVars, mainVars>>

NextOfRow ==
    \/ ClassifyRow
    \/ QualifyRow
    \/ ComposeRow
    \/ NextRow

SpecRow == InitRow /\ [][NextOfRow]_vars


(***************************************************************************)
(* Properties of the loop body (specification SpecRow).                    *)
(***************************************************************************)
\* A row has been taken and both classifiers have returned.
Classified == rpc \in {"classified", "qualified", "composed"}

\* The action keys classify_action can return for a taxonomy.
KnownActionKeys(taxonomy) ==
    {taxonomy[i][1] : i \in 1..Len(taxonomy)}
    \cup {"retrieved", "created", "updated", "deleted", "other"}

\* C1: whatever the operation name and the resource type, the empty string
\* and whitespace-only strings included, classify_object returns a non-empty
\* object label and classify_action returns a pair of an action key (one of
\* the taxonomy's, or one of the five built-in keys) and a label.
C1_Totality ==
    Classified =>
        /\ obj_label # ""
        /\ action_key \in KnownActionKeys(actions_yaml)
        /\ action_label \in STRING

C1_Witness ==
    /\ Classified
    /\ op_name = "" /\ resource_type = ""
    /\ obj_label = "Resource" /\ action_key = "other"

\* Variant v of the index is accepted for the normalized name low.
VariantMatches(v, low) == v[1] # "" /\ Contains(v[1], low)

LongestMatchWins(variants, low) ==
    (\E i \in 1..Len(variants) : VariantMatches(variants[i], low)) =>
        \E i \in 1..Len(variants) :
            /\ VariantMatches(variants[i], low)
            /\ action_key = variants[i][2]
            /\ action_label = variants[i][3]
            /\ \A j \in 1..Len(variants) :
                  VariantMatches(variants[j], low) => Len(variants[j][1]) <= Len(variants[i][1])

\* C2: when some non-empty normalized variant of the taxonomy is a substring
\* of the normalized operation name, classify_action returns the key and the
\* label of a matching variant of maximal phrase length, whatever the order
\* of the taxonomy's entries.
C2_LongestMatchWins ==
    Classified => LongestMatchWins(CollectVariants(actions_yaml), norm(op_name))

C2_Witness ==
    /\ Classified
    /\ actions_yaml = ActionsStopFirst
    /\ op_name = "Stop Instance"
    /\ action_key = "stopped"

StopTaxonomies == {ActionsStopFirst, ActionsStoppedFirst}

\* C3 as stated: with the variants "stop" (key stop) and "stop instance" (key
\* stopped) only, the operation name "StopInstance" classifies as stopped.
C3_Original ==
    (Classified /\ actions_yaml \in StopTaxonomies /\ op_name = "StopInstance")
        => action_key = "stopped"

\* C3 amended: with those two variants only, the operation name
\* "Stop Instance", written with whitespace between the words, classifies as
\* stopped, and "StopInstance", written without, classifies as stop.
C3_Amended ==
    (Classified /\ actions_yaml \in StopTaxonomies) =>
        /\ op_name \in {"Stop Instance", "Stop \tInstance"} => action_key = "stopped"
        /\ op_name = "StopInstance" => action_key = "stop"

C3_Witness ==
    /\ Classified
    /\ actions_yaml = ActionsStopFirst
    /\ op_name = "StopInstance"
    /\ action_key = "stop"

\* The qualifier strings derive_qualifiers can return.
QualifierStrings ==
    {JoinQualifiers(d \o a \o k \o b) :
        d \in {<<>>, <<QUAL_DATA>>}, a \in {<<>>, <<QUAL_ADMIN>>},
        k \in {<<>>, <<QUAL_ALL_DISKS>>},
        b \in {<<>>, <<QUAL_BILLING_FREED>>, <<QUAL_BILLING_CONTINUES>>}}

\* C4: for the object label and the action label of a row, the aggregation
\* key of the common name is the same whatever the qualifier string.
C4_QualifierIndependent ==
    rpc = "composed" =>
        /\ agg = aggregation_key(build_common_name(obj_label, action_label, ""))
        /\ \A q \in QualifierStrings :
              aggregation_key(build_common_name(obj_label, action_label, q))
              = aggregation_key(build_common_name(obj_label, action_label, ""))

\* The text of the row's data-action flag: field IsDataAction, else field
\* is_data, else empty.
FlagText(r) ==
    IF "IsDataAction" \in DOMAIN r THEN pyStr(r["IsDataAction"])
    ELSE IF "is_data" \in DOMAIN r THEN pyStr(r["is_data"])
    ELSE ""

\* Whether the claim's rule grants tag t.
TagGranted(t, r, key, low) ==
    CASE t = "Data" -> Lower(FlagText(r)) = "true"
      [] t = "Admin" -> Contains("admin", low) /\ Contains("login", low)
      [] t = "All Disks" -> Contains("all disks", low)
      [] t = "Billing Freed" ->
            /\ key = "stopped"
            /\ \E s \in {"deallocate", "stop instance", "stop instances", "stopped"} :
                  Contains(s, low)
      [] t = "Billing Continues" ->
            /\ key = "stopped"
            /\ ~\E s \in {"deallocate", "stop instance", "stop instances", "stopped"} :
                  Contains(s, low)
            /\ Contains("power off", low) \/ Contains("poweroff", low)

TagOrder == <<"Data", "Admin", "All Disks", "Billing Freed", "Billing Continues">>

\* C5: the qualifier string is the ';'-join of the granted tags in the order
\* Data, Admin, All Disks, billing tag; the two billing tags never appear
\* together, and none appears unless the action key is stopped.
C5_Qualifiers ==
    rpc \in {"qualified", "composed"} =>
        /\ qs = JoinWith(";", SelectSeq(TagOrder,
                    LAMBDA t : TagGranted(t, row, action_key, norm(op_name))))
        /\ ~(Contains("Billing Freed", qs) /\ Contains("Billing Continues", qs))
        /\ action_key # "stopped" => ~Contains("Billing", qs)

C5_Witness ==
    /\ rpc = "qualified"
    /\ op_name = "deallocate PowerOff"
    /\ action_key = "stopped"
    /\ qs = "Billing Freed"

\* The fallback label the claim gives for a resource type.
TrimmedSingular(t) ==
    IF Len(t) > 3 /\ CharAt(t, Len(t)) = "s" THEN SubSeq(t, 1, Len(t) - 1) ELSE t
FallbackLabel(rt) ==
    IF TrimmedSingular(Strip(rt)) = "" THEN "Resource" ELSE TrimmedSingular(Strip(rt))

AliasMatches(item) == Contains(item[1], Lower(resource_type \o " " \o op_name))

\* C9: when no alias of the index is a substring of the lowercased text
\* "{resource_type} {operation_name}", the object label is the trimmed
\* resource type without one trailing "s" if it ends in "s" and is longer
\* than 3 characters, or "Resource" if that is empty; when some alias
\* matches, the label is the canonical label of a matching alias.
C9_ObjectFallback ==
    Classified =>
        IF \E i \in 1..Len(object_lookup) : AliasMatches(object_lookup[i])
        THEN \E i \in 1..Len(object_lookup) :
                AliasMatches(object_lookup[i]) /\ obj_label = object_lookup[i][2]
        ELSE obj_label = FallbackLabel(resource_type)

C9_Witness ==
    /\ Classified
    /\ resource_type = "Rows" /\ obj_label = "Row"
    /\ object_lookup # <<>>

AllWhitespace(s) == \A i \in 1..Len(s) : CharAt(s, i) \in WhitespaceChars

\* C10: with a taxonomy whose labels are all non-empty, the action label is
\* empty exactly when the operation name is empty or all whitespace, and the
\* key is then other; the common name starts with the object label, a space
\* and the action label.
C10_EmptyActionLabel ==
    (Classified /\ \A i \in 1..Len(actions_yaml) : actions_yaml[i][2].label # "") =>
        /\ action_label = "" <=> AllWhitespace(op_name)
        /\ action_label = "" => action_key = "other"
        /\ rpc = "composed" => StartsWith(common, obj_label \o " " \o action_label)

C10_Witness ==
    /\ rpc = "composed"
    /\ op_name = " \t "
    /\ action_label = "" /\ action_key = "other"
    /\ common = obj_label \o " "

(***************************************************************************)
(* Properties of the batch run (specification Spec).                       *)
(***************************************************************************)
OperationHints == {"operation name", "operation", "action performed", "event", "action"}

\* Some column name is, case-insensitively, one of the operation hints.
HasOperationColumn(df) == \E i \in 1..Len(df.columns) : Lower(df.columns[i]) \in OperationHints

\* The positions of csv_files the loop of main has been through.
Processed == IF pc \in {"loop", "done"} THEN 1..(idx - 1) ELSE {}

InSummary(name) == \E i \in 1..Len(summary) : summary[i][1] = name

\* The columns normalize_file assigns.
DerivedColumns ==
    {"CommonActivityName", "CanonicalAction", "ObjectType", "Qualifiers", "AggregationKey",
     "Provider"}

\* The file normalize_file wrote for name is still what output/ holds under
\* its name: the combined file has not been written over it.
OutputStands(name) == pc = "loop" \/ OutName(name) # CombinedName

\* Some row of the combined output carries the fields of row r.
InCombined(r) ==
    /\ CombinedName \in DOMAIN out_dir
    /\ \E i \in 1..Len(out_dir[CombinedName].rows) :
          /\ DOMAIN r \subseteq DOMAIN out_dir[CombinedName].rows[i]
          /\ \A c \in DOMAIN r : out_dir[CombinedName].rows[i][c] = ReadBackCell(r[c])

\* What the claim says of a table without an operation column, with the
\* exception type it names.
FailsAlone(k, type) ==
    /\ ~InSummary(csv_files[k])
    /\ OutName(csv_files[k]) \notin DOMAIN out_dir
    /\ \A i \in 1..Len(cwd[csv_files[k]].rows) : ~InCombined(cwd[csv_files[k]].rows[i])
    /\ k = idx - 1 => e.raised /\ e.type = type

\* A table with an operation column is processed and written in full.
WrittenInFull(k) ==
    /\ \E i \in 1..Len(summary) :
          /\ summary[i][1] = csv_files[k]
          /\ summary[i][3] = Len(cwd[csv_files[k]].rows)
    /\ OutName(csv_files[k]) \in DOMAIN out_dir
    /\ Len(out_dir[OutName(csv_files[k])].rows) = Len(cwd[csv_files[k]].rows)
    /\ k = idx - 1 => ~e.raised

DerivedOfRow(df, r) ==
    LoopBody(EmptyLists, r, DictGet(map_columns(df).value, "operation"),
             DictGet(map_columns(df).value, "resource_type"), object_lookup, action_variants)

\* C7: the output of a table has as many rows as the input; output row i
\* is input row i with its original fields unchanged plus the derived
\* columns, whose values come from row i alone.
C7_ElementwiseMap ==
    \A k \in Processed :
        (InSummary(csv_files[k]) /\ OutputStands(csv_files[k])) =>
            /\ Len(out_dir[OutName(csv_files[k])].rows) = Len(cwd[csv_files[k]].rows)
            /\ \A i \in 1..Len(cwd[csv_files[k]].rows) :
                  /\ \A c \in DOMAIN cwd[csv_files[k]].rows[i] :
                        out_dir[OutName(csv_files[k])].rows[i][c] = cwd[csv_files[k]].rows[i][c]
                  /\ out_dir[OutName(csv_files[k])].rows[i]["CommonActivityName"]
                     = DerivedOfRow(cwd[csv_files[k]], cwd[csv_files[k]].rows[i]).common_names[1]
                  /\ out_dir[OutName(csv_files[k])].rows[i]["AggregationKey"]
                     = DerivedOfRow(cwd[csv_files[k]], cwd[csv_files[k]].rows[i]).agg_keys[1]

\* The last iteration of main's loop wrote a table of at least one row.
JustWritten ==
    /\ pc = "loop" /\ idx > 1
    /\ ~e.raised
    /\ cwd[csv_files[idx - 1]].rows # <<>>

ProviderCells == {out_dir[OutName(csv_files[idx - 1])].rows[i]["Provider"] :
                     i \in 1..Len(out_dir[OutName(csv_files[idx - 1])].rows)}

\* C8 as stated: the Provider column of every output row is the provider
\* string passed to normalize_file, character for character.
C8_Original == JustWritten => ProviderCells = {StrCell(provider)}

\* C8 amended: the Provider column of every output row is the provider
\* string with its first character in upper case and the rest in lower case.
C8_Amended ==
    JustWritten =>
        ProviderCells = {StrCell(UpperChar(CharAt(provider, 1)) \o Lower(Tail(provider)))}

C8_Witness ==
    /\ JustWritten
    /\ provider = "aws"
    /\ ProviderCells = {StrCell("Aws")}

====
